---- MODULE Spec2Model ----
(***************************************************************************)
(* Model of the order management and reconciliation engine                 *)
(* (src/order_manager.py), the strategy state machine (src/strategy.py)    *)
(* and the market feed loop (src/market_manager.py).                       *)
(*                                                                         *)
(* The program is a set of asyncio tasks over one event loop: the market   *)
(* loop, N_ORDER_CONSUMERS order consumers and the order monitor.  A task  *)
(* runs without interruption from one await to the next, so every action   *)
(* below is the code executed between two awaits of one task.  Every await *)
(* (queue.get, the broker calls, sleep, the market stream) is a point      *)
(* where any other task may run.                                           *)
(*                                                                         *)
(* Order objects are Python objects shared by reference (a CancelOrder and *)
(* the monitor's iteration list keep an Order alive after it was purged    *)
(* from the ledger), so orders live in `heap` and the ledger, the requests *)
(* and the monitor hold indices into it.                                   *)
(*                                                                         *)
(* The broker is outside the repository.  A call either returns a response *)
(* or raises; a post response echoes the request and carries a fresh order *)
(* id and lots_executed in 0..qty; an order state carries the id and       *)
(* direction of the queried order and lots_executed in 0..qty.  Decimal    *)
(* prices are exact, and are represented as integer numbers of 1e-9 units. *)
(***************************************************************************)
EXTENDS Integers, Sequences, FiniteSets, Bags, TLC

\* ---------------------------------------------------------------- bounds
\* Orders the ledger ever creates (create_pending_order calls).
MaxOrders == 3
\* Requests waiting in the submission queue.
MaxQueue == 2
\* Price levels of the order book are NANO + k * TICK, k in 0..MaxTick.
MaxTick == 2

\* ------------------------------------------------------ program constants
N_ORDER_CONSUMERS == 5
BUY == 1
SELL == -1
NANO == 1000000000
\* Price step of the modelled instrument, in 1e-9 units.
TICK == 250000000

None == 0
Sides == {BUY, SELL}

\* OrderStatus / OrderEventType
PENDING == "PENDING"
OPEN == "OPEN"
FILLED == "FILLED"
CANCELLED == "CANCELLED"

\* Action (strategy state)
WAIT == "WAIT"
ActionBUY == "BUY"
ActionSELL == "SELL"

VARIABLES
    ob,            \* MarketManager.ob: NoOrderBook or [bids0, asks0], the best bid / ask prices
    by_side,       \* Orders.by_side: Side -> sequence of heap indices
    heap,          \* the Order objects ever created: [qty, px, side, status, id]
    position,      \* Position.qty
    action,        \* Strategy.action
    order_queue,   \* OrderManager._order_queue
    consumers,     \* the order consumers inside a broker call or ended: bag of [pc, request]
    monitor,       \* _monitor_orders: [pc, order, rest]
    market,        \* the market loop task: "run" or "dead"
    next_order_id, \* the broker's next fresh order id
    failure,       \* first exception raised by a task, "none" if none
    stopped,       \* the process has terminated
    last           \* what the last step did: [op, event_type, order, executed]

vars == <<ob, by_side, heap, position, action, order_queue, consumers, monitor,
          market, next_order_id, failure, stopped, last>>

\* ---------------------------------------------------------------- inputs
\* MarketManager.ob before the first order book: None, as a record without
\* prices.
NoOrderBook == [bids0 |-> None, asks0 |-> None]

Prices == {NANO + k * TICK : k \in 0..MaxTick}
\* An order book with a best bid strictly below the best ask.
Books == {[bids0 |-> b, asks0 |-> a] : b \in Prices, a \in Prices} \
         {bk \in [bids0 : Prices, asks0 : Prices] : bk.bids0 >= bk.asks0}

\* -------------------------------------------------------------- utils.py
decimal_to_quotation(value) ==
    LET units == value \div NANO
        nano == (value - units * NANO)
    IN  [units |-> units, nano |-> nano]

quotation_to_decimal(quotation) == quotation.units * NANO + quotation.nano

\* ------------------------------------------------------ order_manager.py
from_direction(direction) ==
    IF direction = "ORDER_DIRECTION_BUY" THEN BUY ELSE SELL

to_direction(side) ==
    IF side = BUY THEN "ORDER_DIRECTION_BUY" ELSE "ORDER_DIRECTION_SELL"

is_active(status) == status \notin {FILLED, CANCELLED}

get_all_orders(bs) == bs[BUY] \o bs[SELL]

\* Mutant: only the BUY side is looked at.
is_any_pending_buy_side(bs, h) ==
    \E i \in 1..Len(bs[BUY]) : h[bs[BUY][i]].status = PENDING

is_any_pending(bs, h) ==
    \E i \in 1..Len(get_all_orders(bs)) : h[get_all_orders(bs)[i]].status = PENDING

KeepActive(s, h) == SelectSeq(s, LAMBDA o : is_active(h[o].status))

\* Mutant: the purge removes FILLED orders only.
clear_inactive_orders_filled_only(bs, h) ==
    [side \in Sides |-> SelectSeq(bs[side], LAMBDA o : h[o].status # FILLED)]

clear_inactive_orders(bs, h) == [side \in Sides |-> KeepActive(bs[side], h)]

SortKey(o, h) == h[o].px * h[o].side

\* list.sort(key=..., reverse=True) is stable: equal keys keep their order.
InsertByKey(sorted, o, h) ==
    LET before == SelectSeq(sorted, LAMBDA x : SortKey(x, h) >= SortKey(o, h))
        after == SelectSeq(sorted, LAMBDA x : SortKey(x, h) < SortKey(o, h))
    IN  before \o <<o>> \o after

\* Mutant: the list is left in insertion order.
SortBestFirst_unsorted(s, h) == s

RECURSIVE SortBestFirst(_, _)
SortBestFirst(s, h) ==
    IF s = <<>> THEN <<>>
    ELSE InsertByKey(SortBestFirst(SubSeq(s, 1, Len(s) - 1), h), s[Len(s)], h)

_insert_order(bs, o, h) ==
    [bs EXCEPT ![h[o].side] = SortBestFirst(Append(bs[h[o].side], o), h)]

\* Indices in by_side[side] of the orders the filter of
\* _find_order_by_side_px_qty lets through; next() takes the first.
MatchSidePxQty(bs, h, side, px, qty) ==
    {i \in 1..Len(bs[side]) : h[bs[side][i]].px = px /\ h[bs[side][i]].qty = qty}

\* Mutant: the broker id is not compared.
MatchId_any_id(bs, h, side, order_id) ==
    {i \in 1..Len(bs[side]) : TRUE}

MatchId(bs, h, side, order_id) ==
    {i \in 1..Len(bs[side]) : h[bs[side][i]].id = order_id}

Min(S) == CHOOSE x \in S : \A y \in S : x <= y

NoEvent == [event_type |-> "NONE", order |-> None]

OrderEvent(event_type, o) == [event_type |-> event_type, order |-> o]

\* ------------------------------------------------------------ strategy.py
\* Mutant: the state is BUY whatever the position is.
ActionFor_always_buy(qty) == ActionBUY

\* Action.BUY if position.qty == 0 else Action.SELL
ActionFor(qty) == IF qty = 0 THEN ActionBUY ELSE ActionSELL

get_side(a) == IF a = ActionBUY THEN BUY ELSE SELL

\* The NewOrder buy_or_sell_action builds from the position and the book.
NewOrderFor(qty, book) ==
    LET side == get_side(ActionFor(qty))
    IN  [type |-> "NewOrder", qty |-> 1,
         px |-> IF side = BUY THEN book.bids0 ELSE book.asks0,
         side |-> side]

CancelOrder(o) == [type |-> "CancelOrder", order |-> o]

\* possible_cancel_action's test on the single order against the book.
ShouldCancel(order, book) ==
    LET ob_px == IF order.side = BUY THEN book.bids0 ELSE book.asks0
    IN  order.side * order.px < order.side * ob_px

\* Mutant: the fill is added without the sign of the side.
update_by_filled_order_unsigned(qty, order) == qty + order.qty

\* Position.update_by_filled_order on a position of qty lots.
update_by_filled_order(qty, order) == qty + order.qty * order.side

\* Mutant: a CANCELLED event is ignored.
on_order_event_acts_filled_only(event_type) == event_type \in {FILLED}

\* on_order_event: the event types on which it calls buy_or_sell_action.
on_order_event_acts(event_type) == event_type \in {FILLED, CANCELLED}

\* Queue.put_nowait; the queue is unbounded in the program and capped here.
CanPut(q) == Len(q) < MaxQueue

\* Mutant: the strategy is called before the position is updated.
_notify_strategy_callback_first(order_event, h, bs, q) ==
    LET qty == IF order_event.event_type = FILLED
               THEN update_by_filled_order(position, h[order_event.order])
               ELSE position
        terminal == on_order_event_acts(order_event.event_type)
    IN  /\ terminal => CanPut(q)
        /\ position' = qty
        /\ order_queue' = IF terminal THEN Append(q, NewOrderFor(position, ob)) ELSE q
        /\ action' = IF terminal THEN WAIT ELSE action
        /\ by_side' = clear_inactive_orders(bs, h)

\* on_order_event followed by the rest of _notify_strategy, for a non-None
\* event, with h, bs and q the heap, the ledger and the queue the caller
\* has produced so far.
_notify_strategy(order_event, h, bs, q) ==
    LET qty == IF order_event.event_type = FILLED
               THEN update_by_filled_order(position, h[order_event.order])
               ELSE position
        terminal == on_order_event_acts(order_event.event_type)
    IN  /\ terminal => CanPut(q)
        /\ position' = qty
        /\ order_queue' = IF terminal THEN Append(q, NewOrderFor(qty, ob)) ELSE q
        /\ action' = IF terminal THEN WAIT ELSE action
        /\ by_side' = clear_inactive_orders(bs, h)

\* The order consumers are identical tasks: the state keeps the bag of the
\* positions of those that are not waiting in queue.get.
Consumer(pc, request) == [pc |-> pc, request |-> request]

Ended == Consumer("ended", None)

\* Some consumer is waiting in queue.get.
SomeIdle == BagCardinality(consumers) < N_ORDER_CONSUMERS

Enter(c) == consumers' = consumers (+) SetToBag({c})

Leave(c) == consumers' = consumers (-) SetToBag({c})

Fail(c) == consumers' = (consumers (-) SetToBag({c})) (+) SetToBag({Ended})

InCall(pc) == {c \in BagToSet(consumers) : c.pc = pc}

Asleep == [pc |-> "sleep", order |-> None, order_id |-> None, rest |-> <<>>]

\* An Order object lives as long as something refers to it: the ledger, a
\* CancelOrder in the queue or held by a consumer, the monitor's list, or
\* the event of the step just taken.  An object nothing refers to is freed.
Freed == [qty |-> 0, px |-> 0, side |-> 0, status |-> "freed", id |-> None]

Range(s) == {s[i] : i \in 1..Len(s)}

Referenced(bs, q, cs, m, l) ==
    Range(bs[BUY]) \cup Range(bs[SELL])
    \cup {q[i].order : i \in {j \in 1..Len(q) : q[j].type = "CancelOrder"}}
    \cup {c.request.order : c \in {d \in BagToSet(cs) : d.pc = "cancel_order"}}
    \cup {m.order} \cup Range(m.rest) \cup {l.order}

\* The heap after a step that leaves it as h, once every other variable
\* has its new value.
Store(h) ==
    heap' = [o \in 1..Len(h) |->
                IF o \in Referenced(by_side', order_queue', consumers', monitor', last')
                THEN h[o] ELSE Freed]

Init ==
    /\ ob = NoOrderBook
    /\ by_side = [side \in Sides |-> <<>>]
    /\ heap = <<>>
    /\ position \in {0, 1}
    /\ action = ActionFor(position)
    /\ order_queue = <<>>
    /\ consumers = EmptyBag
    /\ monitor = Asleep
    /\ market = "run"
    /\ next_order_id = 1
    /\ failure = "none"
    /\ stopped = FALSE
    /\ last = [op |-> "init", event_type |-> "NONE", order |-> None, executed |-> 0]

Did(op, ev, executed) ==
    last' = [op |-> op, event_type |-> ev.event_type, order |-> ev.order,
             executed |-> executed]

Raise(kind) == failure' = IF failure = "none" THEN kind ELSE failure

\* MarketManager.run_loop: one order book arrives; Strategy.on_orderbook_update.
OrderbookUpdate(book) ==
    /\ ~stopped /\ market = "run"
    /\ ob' = book
    /\ IF is_any_pending(by_side, heap)
       THEN /\ Did("on_orderbook_update", NoEvent, 0)
            /\ UNCHANGED <<action, order_queue, market, failure>>
       ELSE IF action = WAIT
       THEN \* possible_cancel_action
            IF Len(get_all_orders(by_side)) # 1
            THEN /\ market' = "ended"
                 /\ Raise("AssertionError")
                 /\ Did("on_orderbook_update", NoEvent, 0)
                 /\ UNCHANGED <<action, order_queue>>
            ELSE LET o == get_all_orders(by_side)[1]
                 IN  /\ IF ShouldCancel(heap[o], book)
                        THEN /\ CanPut(order_queue)
                             /\ order_queue' = Append(order_queue, CancelOrder(o))
                        ELSE UNCHANGED order_queue
                     /\ Did("on_orderbook_update", NoEvent, 0)
                     /\ UNCHANGED <<action, market, failure>>
       ELSE \* buy_or_sell_action
            /\ CanPut(order_queue)
            /\ order_queue' = Append(order_queue, NewOrderFor(position, book))
            /\ action' = WAIT
            /\ Did("on_orderbook_update", NoEvent, 0)
            /\ UNCHANGED <<market, failure>>
    /\ UNCHANGED <<by_side, position, consumers, monitor, next_order_id, stopped>>
    /\ Store(heap)

\* _order_consumer: queue.get returns a NewOrder; _post_order_consumer up to
\* the await of the broker's post_order.
GetNewOrder ==
    /\ ~stopped /\ SomeIdle
    /\ order_queue # <<>> /\ Head(order_queue).type = "NewOrder"
    /\ Len(heap) < MaxOrders
    /\ LET request == Head(order_queue)
           o == Len(heap) + 1
           \* create_pending_order
           h == Append(heap, [qty |-> request.qty, px |-> request.px,
                              side |-> request.side, status |-> PENDING, id |-> None])
           bs == _insert_order(by_side, o, h)
       IN  /\ _notify_strategy(OrderEvent(PENDING, o), h, bs, Tail(order_queue))
           /\ Enter(Consumer("post_order", request))
           /\ Did("create_pending_order", OrderEvent(PENDING, o), 0)
           /\ UNCHANGED <<ob, monitor, market, next_order_id, failure, stopped>>
           /\ Store(h)

\* _order_consumer: queue.get returns a CancelOrder; _cancel_order_consumer
\* up to the await of the broker's cancel_order.
GetCancelOrder ==
    /\ ~stopped /\ SomeIdle
    /\ order_queue # <<>> /\ Head(order_queue).type = "CancelOrder"
    /\ LET request == Head(order_queue)
           \* process_pending_cancel
           h == [heap EXCEPT ![request.order].status = PENDING]
       IN  /\ _notify_strategy(OrderEvent(PENDING, request.order), h, by_side,
                               Tail(order_queue))
           /\ Enter(Consumer("cancel_order", request))
           /\ Did("process_pending_cancel", OrderEvent(PENDING, request.order), 0)
           /\ UNCHANGED <<ob, monitor, market, next_order_id, failure, stopped>>
           /\ Store(h)

\* The broker's answer to the post_order call of _post_order_consumer.
PostOrderResponse(request, order_id, lots_executed) ==
    [direction |-> to_direction(request.side),
     initial_security_price |-> decimal_to_quotation(request.px),
     lots_requested |-> request.qty,
     order_id |-> order_id,
     lots_executed |-> lots_executed]

\* _post_order_consumer after the await: process_post_order_response and
\* the notification; the consumer goes back to queue.get.
PostOrderReturns(c, lots_executed) ==
    /\ ~stopped /\ c \in InCall("post_order")
    /\ lots_executed \in 0..c.request.qty
    /\ next_order_id' = next_order_id + 1
    /\ UNCHANGED <<ob, monitor, market, stopped>>
    /\ LET response == PostOrderResponse(c.request, next_order_id, lots_executed)
           side == from_direction(response.direction)
           px == quotation_to_decimal(response.initial_security_price)
           qty == response.lots_requested
           found == MatchSidePxQty(by_side, heap, side, px, qty)
       IN  IF found = {}
           THEN \* next() on an exhausted filter
                /\ Fail(c)
                /\ Raise("StopIteration")
                /\ Did("process_post_order_response", NoEvent, lots_executed)
                /\ UNCHANGED <<by_side, position, action, order_queue>>
                /\ Store(heap)
           ELSE LET o == by_side[side][Min(found)]
                    status == IF heap[o].qty = response.lots_executed THEN FILLED ELSE OPEN
                    h == [heap EXCEPT ![o].id = response.order_id, ![o].status = status]
                IN  /\ _notify_strategy(OrderEvent(status, o), h, by_side, order_queue)
                    /\ Leave(c)
                    /\ Did("process_post_order_response", OrderEvent(status, o), lots_executed)
                    /\ UNCHANGED failure
                    /\ Store(h)

\* _cancel_order_consumer after the await: process_cancel_order_response
\* and the notification; the consumer goes back to queue.get.
CancelOrderReturns(c) ==
    /\ ~stopped /\ c \in InCall("cancel_order")
    /\ LET o == c.request.order
           h == [heap EXCEPT ![o].status = CANCELLED]
       IN  /\ _notify_strategy(OrderEvent(CANCELLED, o), h, by_side, order_queue)
           /\ Leave(c)
           /\ Did("process_cancel_order_response", OrderEvent(CANCELLED, o), 0)
           /\ UNCHANGED <<ob, monitor, market, next_order_id, failure, stopped>>
           /\ Store(h)

\* The awaited post_order or cancel_order call raises: the exception leaves
\* _order_consumer and ends that task.
BrokerCallRaises(c) ==
    /\ ~stopped /\ c \in InCall("post_order") \cup InCall("cancel_order")
    /\ Fail(c)
    /\ Raise("RequestError")
    /\ Did("broker_raises", NoEvent, 0)
    /\ UNCHANGED <<ob, by_side, position, action, order_queue, monitor, market,
                   next_order_id, stopped>>
    /\ Store(heap)

\* The for loop of _monitor_orders from its current element to the next
\* await: orders without id or FILLED are skipped, the first other one is
\* queried; at the end of the list the monitor sleeps again.
RECURSIVE MonitorLoop(_, _)
MonitorLoop(rest, h) ==
    IF rest = <<>> THEN Asleep
    ELSE IF h[Head(rest)].id = None \/ h[Head(rest)].status = FILLED
    THEN MonitorLoop(Tail(rest), h)
    ELSE [pc |-> "get_order_state", order |-> Head(rest),
          order_id |-> h[Head(rest)].id, rest |-> Tail(rest)]

\* _monitor_orders: the sleep ends; iter(self.orders) copies the ledger.
MonitorWakes ==
    /\ ~stopped /\ monitor.pc = "sleep"
    /\ monitor' = MonitorLoop(get_all_orders(by_side), heap)
    /\ Did("monitor_wakes", NoEvent, 0)
    /\ UNCHANGED <<ob, by_side, position, action, order_queue, consumers, market,
                   next_order_id, failure, stopped>>
    /\ Store(heap)

\* The broker's answer to get_order_state for the queried order.
OrderState(o, order_id, lots_executed) ==
    [direction |-> to_direction(heap[o].side),
     order_id |-> order_id,
     lots_executed |-> lots_executed]

\* _monitor_orders after the await: process_get_order, the notification if
\* any, and the loop up to its next await.
GetOrderStateReturns(lots_executed) ==
    /\ ~stopped /\ monitor.pc = "get_order_state"
    /\ lots_executed \in 0..heap[monitor.order].qty
    /\ UNCHANGED <<ob, consumers, market, next_order_id, failure, stopped>>
    /\ LET response == OrderState(monitor.order, monitor.order_id, lots_executed)
           side == from_direction(response.direction)
           found == MatchId(by_side, heap, side, response.order_id)
       IN  IF found = {}
           THEN \* logged, no event
                /\ Did("process_get_order", NoEvent, lots_executed)
                /\ monitor' = MonitorLoop(monitor.rest, heap)
                /\ UNCHANGED <<by_side, position, action, order_queue>>
                /\ Store(heap)
           ELSE LET o == by_side[side][Min(found)]
                IN  IF heap[o].qty = response.lots_executed
                    THEN LET h == [heap EXCEPT ![o].status = FILLED]
                         IN  /\ _notify_strategy(OrderEvent(FILLED, o), h, by_side, order_queue)
                             /\ Did("process_get_order", OrderEvent(FILLED, o), lots_executed)
                             /\ monitor' = MonitorLoop(monitor.rest, h)
                             /\ Store(h)
                    ELSE /\ Did("process_get_order", NoEvent, lots_executed)
                         /\ monitor' = MonitorLoop(monitor.rest, heap)
                         /\ UNCHANGED <<by_side, position, action, order_queue>>
                         /\ Store(heap)

\* The awaited get_order_state call raises and ends _monitor_orders.
GetOrderStateRaises ==
    /\ ~stopped /\ monitor.pc = "get_order_state"
    /\ monitor' = [pc |-> "ended", order |-> None, order_id |-> None, rest |-> <<>>]
    /\ Raise("RequestError")
    /\ Did("broker_raises", NoEvent, 0)
    /\ UNCHANGED <<ob, by_side, position, action, order_queue, consumers, market,
                   next_order_id, stopped>>
    /\ Store(heap)

\* main: the exception of a task reaches asyncio.gather, main logs it and
\* returns, and asyncio.run cancels the tasks that are left.
Exit ==
    /\ ~stopped /\ failure # "none"
    /\ stopped' = TRUE
    /\ Did("exit", NoEvent, 0)
    /\ UNCHANGED <<ob, by_side, position, action, order_queue, consumers, monitor,
                   market, next_order_id, failure>>
    /\ Store(heap)

\* The program with a broker that answers every call.
Next ==
    \/ \E book \in Books : OrderbookUpdate(book)
    \/ GetNewOrder
    \/ GetCancelOrder
    \/ \E c \in BagToSet(consumers) : \E lots_executed \in 0..1 : PostOrderReturns(c, lots_executed)
    \/ \E c \in BagToSet(consumers) : CancelOrderReturns(c)
    \/ MonitorWakes
    \/ \E lots_executed \in 0..1 : GetOrderStateReturns(lots_executed)
    \/ Exit

Spec == Init /\ [][Next]_vars

\* The program with a broker whose calls may also raise.
NextRaise ==
    \/ Next
    \/ \E c \in BagToSet(consumers) : BrokerCallRaises(c)
    \/ GetOrderStateRaises

SpecRaise == Init /\ [][NextRaise]_vars

\* The positions get_initial_position may report at startup.
InitialPositions == -1..2

\* Strategy.__init__: assert om.position.qty in [0, 1]
StartupOk(qty) == qty \in {0, 1}

\* main up to asyncio.gather for any initial position: the constructors run
\* outside the try block, so a failed assertion of Strategy.__init__ leaves
\* main before a task is created and the process terminates.
InitStartup ==
    /\ position \in InitialPositions
    /\ ob = NoOrderBook
    /\ by_side = [side \in Sides |-> <<>>]
    /\ heap = <<>>
    /\ order_queue = <<>>
    /\ consumers = EmptyBag
    /\ monitor = Asleep
    /\ next_order_id = 1
    /\ last = [op |-> "init", event_type |-> "NONE", order |-> None, executed |-> 0]
    /\ IF StartupOk(position)
       THEN /\ action = ActionFor(position)
            /\ market = "run"
            /\ failure = "none"
            /\ stopped = FALSE
       ELSE /\ action = "unset"
            /\ market = "ended"
            /\ failure = "AssertionError"
            /\ stopped = TRUE

\* The program started with any initial position.
SpecStartup == InitStartup /\ [][Next]_vars

\* The variables the tasks write; ob is written by the market loop only.
task_vars == <<by_side, heap, position, action, order_queue, consumers, monitor,
               market, next_order_id, failure, stopped, last>>

\* The program under a fair event loop and a broker that answers every
\* call: a task that can run is run, a call in flight is answered, and the
\* exception of a task reaches main.  The market stream is not obliged to
\* deliver another order book.
Fairness ==
    /\ WF_task_vars(GetNewOrder)
    /\ WF_task_vars(GetCancelOrder)
    /\ WF_task_vars(\E c \in BagToSet(consumers) : \E lots_executed \in 0..1 :
                   PostOrderReturns(c, lots_executed))
    /\ WF_task_vars(\E c \in BagToSet(consumers) : CancelOrderReturns(c))
    /\ WF_task_vars(MonitorWakes)
    /\ WF_task_vars(\E lots_executed \in 0..1 : GetOrderStateReturns(lots_executed))
    /\ WF_task_vars(Exit)

SpecLive == Init /\ [][Next]_vars /\ Fairness

\* ---------------------------------------------------------------- claims
Ledger == get_all_orders(by_side)

\* Some order of the ledger is PENDING.
AnyPending == \E i \in 1..Len(Ledger) : heap[Ledger[i]].status = PENDING

\* The step just taken is a call of Strategy.on_orderbook_update.
BookStep == last'.op = "on_orderbook_update"

\* C1: whenever on_orderbook_update reaches possible_cancel_action the
\* ledger holds exactly one order: the assertion len(orders) == 1 never
\* fails, so no task ever ends with an AssertionError.
C1_AssertionNeverFails == failure # "AssertionError"

\* C2: the ledger holds at most one active (PENDING or OPEN) order,
\* counted over both sides together.
C2_AtMostOneActive ==
    Cardinality({i \in 1..Len(Ledger) : heap[Ledger[i]].status \in {PENDING, OPEN}}) <= 1

\* C3: a create_pending_order while the ledger holds a PENDING order is
\* rejected: the step raises and adds no order to the ledger.
C3_SecondPendingRejected ==
    [][(last'.op = "create_pending_order" /\ AnyPending)
        => (by_side' = by_side /\ failure = "none" /\ failure' # "none")]_vars

\* C4: Position.qty changes only in a step that notifies a FILLED event,
\* and then by order.qty * side of the filled order; every other step
\* leaves it unchanged.
C4_PositionOnlyOnFill ==
    [][IF last'.event_type = FILLED
       THEN position' = position + heap'[last'.order].qty * heap'[last'.order].side
       ELSE position' = position]_vars

\* A SELL order was filled from one lot: the position went to 0.
C4_Witness ==
    /\ last.event_type = FILLED
    /\ heap[last.order].side = SELL
    /\ position = 0

AllowedStatusChange ==
    {<<PENDING, OPEN>>, <<PENDING, FILLED>>, <<PENDING, CANCELLED>>,
     <<OPEN, FILLED>>, <<OPEN, CANCELLED>>, <<OPEN, PENDING>>}

\* C5: every status change of an order is one of PENDING->OPEN,
\* PENDING->FILLED, PENDING->CANCELLED, OPEN->FILLED, OPEN->CANCELLED,
\* OPEN->PENDING; a FILLED or CANCELLED order never changes status.
C5_StatusTransitions ==
    [][\A o \in 1..Len(heap) :
          (heap'[o].status # heap[o].status /\ heap'[o] # Freed)
              => <<heap[o].status, heap'[o].status>> \in AllowedStatusChange]_vars

\* C6: the order process_post_order_response selects was PENDING without
\* broker id, and was the only order of its side with the response's
\* price and quantity.
C6_PostResponseMatchesUniquePending ==
    [][(last'.op = "process_post_order_response" /\ last'.order # None)
        => /\ heap[last'.order].status = PENDING
           /\ heap[last'.order].id = None
           /\ Cardinality({i \in 1..Len(by_side[heap[last'.order].side]) :
                  /\ heap[by_side[heap[last'.order].side][i]].px = heap[last'.order].px
                  /\ heap[by_side[heap[last'.order].side][i]].qty = heap[last'.order].qty})
              = 1]_vars

\* C7: a post response with lots_executed = qty for a PENDING BUY order at
\* position 0 makes the order FILLED, the position 1, and enqueues in the
\* same step a SELL NewOrder of one lot at the best ask; symmetrically a
\* PENDING SELL order at position 1 gives position 0 and a BUY NewOrder at
\* the best bid.
C7_FillThenOppositeOrder ==
    [][(/\ last'.op = "process_post_order_response"
        /\ last'.order # None
        /\ heap[last'.order].status = PENDING
        /\ last'.executed = heap[last'.order].qty
        /\ position = (IF heap[last'.order].side = BUY THEN 0 ELSE 1))
        => /\ heap'[last'.order].status = FILLED
           /\ position' = (IF heap[last'.order].side = BUY THEN 1 ELSE 0)
           /\ order_queue' = Append(order_queue,
                  IF heap[last'.order].side = BUY
                  THEN [type |-> "NewOrder", qty |-> 1, px |-> ob.asks0, side |-> SELL]
                  ELSE [type |-> "NewOrder", qty |-> 1, px |-> ob.bids0, side |-> BUY])]_vars

\* A BUY order was filled by its post response and the SELL order at the
\* best ask is the request just enqueued.
C7_Witness ==
    /\ last.op = "process_post_order_response"
    /\ last.event_type = FILLED
    /\ heap[last.order].side = BUY
    /\ position = 1
    /\ order_queue # <<>>
    /\ order_queue[Len(order_queue)] =
           [type |-> "NewOrder", qty |-> 1, px |-> ob.asks0, side |-> SELL]

\* The queue without the request a consumer took in this step, if any.
C8_QueueBefore ==
    IF last'.op \in {"create_pending_order", "process_pending_cancel"}
    THEN Tail(order_queue) ELSE order_queue

\* C8: a FILLED or CANCELLED event enqueues exactly one NewOrder of one
\* lot, BUY at the first bid if the position is then 0, else SELL at the
\* first ask, and leaves the strategy in WAIT; a PENDING or OPEN event
\* enqueues nothing and leaves the strategy state unchanged.
C8_OneNewOrderPerTerminalEvent ==
    [][/\ last'.event_type \in {FILLED, CANCELLED}
          => /\ order_queue' = Append(order_queue,
                    IF position' = 0
                    THEN [type |-> "NewOrder", qty |-> 1, px |-> ob'.bids0, side |-> BUY]
                    ELSE [type |-> "NewOrder", qty |-> 1, px |-> ob'.asks0, side |-> SELL])
             /\ action' = WAIT
       /\ last'.event_type \in {PENDING, OPEN}
          => /\ order_queue' = C8_QueueBefore
             /\ action' = action]_vars

\* A CANCELLED event at position 0 put a BUY order at the best bid into
\* the queue.
C8_Witness ==
    /\ last.event_type = CANCELLED
    /\ position = 0
    /\ action = WAIT
    /\ order_queue # <<>>
    /\ order_queue[Len(order_queue)] =
           [type |-> "NewOrder", qty |-> 1, px |-> ob.bids0, side |-> BUY]

\* C9: an order-book update that arrives while an order of the ledger is
\* PENDING enqueues nothing and leaves the strategy state, the ledger, its
\* orders and the position unchanged, and raises nothing.
C9_UpdateWhilePendingDoesNothing ==
    [][(BookStep /\ AnyPending)
        => /\ order_queue' = order_queue
           /\ action' = action
           /\ by_side' = by_side
           /\ \A i \in 1..Len(Ledger) : heap'[Ledger[i]] = heap[Ledger[i]]
           /\ position' = position
           /\ failure' = failure]_vars

\* An order-book update was taken while an order of the ledger was
\* PENDING and the strategy waited with a different best price on the
\* order's side.
C9_Witness ==
    /\ last.op = "on_orderbook_update"
    /\ action = WAIT
    /\ \E i \in 1..Len(Ledger) :
          /\ heap[Ledger[i]].status = PENDING
          /\ heap[Ledger[i]].side = BUY
          /\ heap[Ledger[i]].px < ob.bids0

\* C10: on an order-book update with no PENDING order, strategy state WAIT
\* and one order in the ledger, a CancelOrder for that order is enqueued
\* if and only if its price is not the best bid (BUY) or the best ask
\* (SELL) of the new book; the strategy state stays WAIT.
C10_CancelIffNotBest ==
    [][(/\ BookStep
        /\ ~AnyPending
        /\ action = WAIT
        /\ Len(Ledger) = 1)
        => /\ action' = WAIT
           /\ IF heap[Ledger[1]].px #
                   (IF heap[Ledger[1]].side = BUY THEN ob'.bids0 ELSE ob'.asks0)
              THEN order_queue' = Append(order_queue, [type |-> "CancelOrder", order |-> Ledger[1]])
              ELSE order_queue' = order_queue]_vars

\* The best price of the stored order book on one side.
BestPx(book, side) == IF side = BUY THEN book.bids0 ELSE book.asks0

\* C11: the cancel cycle.  An order-book update that finds a single OPEN
\* order, state WAIT, and a best price on the order's side that moved past
\* the order's price (best bid above an open BUY) enqueues a CancelOrder
\* for it; the consumer that takes the CancelOrder makes the order PENDING;
\* the cancel response finds the order PENDING in the ledger, makes it
\* CANCELLED and purges it, leaves the position as it was and enqueues one
\* NewOrder of the order's side at the best price of that moment.
C11_CancelCycle ==
    [][/\ (/\ BookStep
           /\ action = WAIT
           /\ Len(Ledger) = 1
           /\ heap[Ledger[1]].status = OPEN
           /\ heap[Ledger[1]].side * heap[Ledger[1]].px
                  < heap[Ledger[1]].side * BestPx(ob', heap[Ledger[1]].side))
          => order_queue' = Append(order_queue, [type |-> "CancelOrder", order |-> Ledger[1]])
       /\ last'.op = "process_pending_cancel"
          => /\ heap'[last'.order].status = PENDING
             /\ position' = position
       /\ last'.op = "process_cancel_order_response"
          => /\ heap[last'.order].status = PENDING
             /\ last'.order \in Range(Ledger)
             /\ heap'[last'.order].status = CANCELLED
             /\ last'.order \notin Range(by_side'[BUY]) \cup Range(by_side'[SELL])
             /\ position' = position
             /\ order_queue' = Append(order_queue,
                    [type |-> "NewOrder", qty |-> 1,
                     px |-> BestPx(ob, heap[last'.order].side),
                     side |-> heap[last'.order].side])]_vars

\* C12: startup.  With an initial position other than 0 or 1 the startup
\* assertion fails, the process stops and no step is ever taken, so no
\* order is submitted; otherwise the initial strategy state is BUY for
\* position 0 and SELL for position 1, and the first order-book update
\* leaves exactly one request in the queue, a NewOrder of one lot of the
\* side of the initial state at the best bid (BUY) or best ask (SELL), and
\* the state WAIT.  (The state is BUY or SELL only until that update.)
C12_Startup ==
    /\ [](last.op = "init"
            => IF position \in {0, 1}
               THEN /\ action = (IF position = 0 THEN ActionBUY ELSE ActionSELL)
                    /\ failure = "none"
                    /\ ~stopped
               ELSE /\ failure = "AssertionError"
                    /\ stopped
                    /\ order_queue = <<>>
                    /\ consumers = EmptyBag
                    /\ heap = <<>>)
    /\ [][~(last.op = "init" /\ position \notin {0, 1})]_vars
    /\ [][(action \in {ActionBUY, ActionSELL} /\ BookStep)
            => /\ order_queue' =
                    <<[type |-> "NewOrder", qty |-> 1,
                       px |-> IF action = ActionBUY THEN ob'.bids0 ELSE ob'.asks0,
                       side |-> IF action = ActionBUY THEN BUY ELSE SELL]>>
               /\ action' = WAIT
               /\ failure' = "none"]_vars

\* The first order-book update after a start with one lot left a SELL
\* NewOrder at the best ask as the only request, and the state WAIT.
C12_Witness ==
    /\ last.op = "on_orderbook_update"
    /\ position = 1
    /\ heap = <<>>
    /\ failure = "none"
    /\ action = WAIT
    /\ order_queue = <<[type |-> "NewOrder", qty |-> 1, px |-> ob.asks0, side |-> SELL]>>

\* A start with two lots: the process has stopped at the assertion.
C12_WitnessRejected == last.op = "init" /\ position = 2 /\ stopped

\* C13: in every state (every state is a point where a task awaits) no
\* order of the ledger is FILLED or CANCELLED, every notification having
\* ended with the purge; and a step removes from a side of the ledger only
\* orders that are then FILLED or CANCELLED: the orders that stay PENDING
\* or OPEN are all kept, in their relative order.
C13_PurgeAfterNotification ==
    /\ [](\A i \in 1..Len(Ledger) : heap[Ledger[i]].status \in {PENDING, OPEN})
    /\ [][\A side \in Sides :
             SelectSeq(by_side'[side], LAMBDA o : o \in Range(by_side[side]))
                 = SelectSeq(by_side[side], LAMBDA o : heap'[o].status \in {PENDING, OPEN})]_vars

\* A notification of a terminal event purged its order from a ledger that
\* held another order, which was kept.
C13_Witness ==
    /\ last.event_type \in {FILLED, CANCELLED}
    /\ heap[last.order].status \in {FILLED, CANCELLED}
    /\ last.order \notin Range(Ledger)
    /\ \E i \in 1..Len(Ledger) :
          /\ heap[Ledger[i]].side = heap[last.order].side
          /\ Ledger[i] < last.order

\* C14: on each side of the ledger the orders are sorted by non-increasing
\* side * price: BUY by descending price, SELL by ascending price.
C14_SortedBestFirst ==
    \A side \in Sides : \A i \in 1..Len(by_side[side]) : \A j \in 1..Len(by_side[side]) :
        i < j => heap[by_side[side][i]].side * heap[by_side[side][i]].px
                     >= heap[by_side[side][j]].side * heap[by_side[side][j]].px

\* A side holds two orders of which the later created one has the better
\* price and stands first.
C14_Witness ==
    \E side \in Sides :
        /\ Len(by_side[side]) = 2
        /\ by_side[side][1] > by_side[side][2]
        /\ heap[by_side[side][1]].side * heap[by_side[side][1]].px
               > heap[by_side[side][2]].side * heap[by_side[side][2]].px

\* C15: process_get_order makes an order FILLED and gives a FILLED event
\* exactly when the ledger holds, on the side of the response, an order
\* with the response's broker id and lots_executed equals its qty; in
\* every other case (the order was purged, or the execution is partial or
\* zero) it gives no event, raises nothing and leaves the ledger, its
\* orders, the position, the strategy state and the queue unchanged.
C15_GetOrderFillsOnlyOnFullMatch ==
    [][last'.op = "process_get_order"
        => IF \E i \in 1..Len(by_side[heap[monitor.order].side]) :
                 /\ heap[by_side[heap[monitor.order].side][i]].id = monitor.order_id
                 /\ heap[by_side[heap[monitor.order].side][i]].qty = last'.executed
           THEN /\ last'.event_type = FILLED
                /\ last'.order \in Range(by_side[heap[monitor.order].side])
                /\ heap[last'.order].id = monitor.order_id
                /\ heap'[last'.order].status = FILLED
                /\ failure' = failure
           ELSE /\ last'.event_type = "NONE"
                /\ by_side' = by_side
                /\ \A i \in 1..Len(Ledger) : heap'[Ledger[i]] = heap[Ledger[i]]
                /\ position' = position
                /\ action' = action
                /\ order_queue' = order_queue
                /\ failure' = failure]_vars

\* A status poll reported a full execution of an order that was no longer
\* in the ledger, while the ledger held another, active order: no event.
C15_Witness ==
    /\ last.op = "process_get_order"
    /\ last.event_type = "NONE"
    /\ last.executed = 1
    /\ Ledger # <<>>
    /\ \A i \in 1..Len(Ledger) : heap[Ledger[i]].status \in {PENDING, OPEN}

\* C16: for the whole duration of a consumer's broker call the order of
\* its request is in the ledger with status PENDING: the order a
\* CancelOrder names, and for a NewOrder a PENDING order without broker id
\* with the request's side, price and quantity.
C16_PendingDuringBrokerCall ==
    \A c \in BagToSet(consumers) :
        /\ c.pc = "cancel_order"
              => /\ c.request.order \in Range(Ledger)
                 /\ heap[c.request.order].status = PENDING
        /\ c.pc = "post_order"
              => \E i \in 1..Len(Ledger) :
                    /\ heap[Ledger[i]].status = PENDING
                    /\ heap[Ledger[i]].id = None
                    /\ heap[Ledger[i]].side = c.request.side
                    /\ heap[Ledger[i]].px = c.request.px
                    /\ heap[Ledger[i]].qty = c.request.qty

\* C17: once a broker call has failed the system has stopped: no step after
\* the failure takes a request from the queue, starts a broker call, or
\* changes the ledger, its orders or the position.
C17_NothingAfterBrokerFailure ==
    [][failure = "RequestError"
        => /\ by_side' = by_side
           /\ \A i \in 1..Len(Ledger) : heap'[Ledger[i]] = heap[Ledger[i]]
           /\ position' = position
           /\ Len(order_queue') >= Len(order_queue)
           /\ \A c \in BagToSet(consumers') :
                  c.pc \in {"post_order", "cancel_order"}
                      => CopiesIn(c, consumers') <= CopiesIn(c, consumers)
           /\ monitor'.pc = "get_order_state" => monitor' = monitor]_vars

\* The monitor issues a status query in this step.
C18_QueryIssued ==
    /\ last'.op \in {"monitor_wakes", "process_get_order"}
    /\ monitor'.pc = "get_order_state"

\* C18: every status query the monitor issues is for an order that at that
\* moment is in the ledger, is PENDING or OPEN, and has a broker id.
C18_QueriesOnlyLiveOrders ==
    [][C18_QueryIssued
        => /\ monitor'.order \in Range(by_side'[BUY]) \cup Range(by_side'[SELL])
           /\ heap'[monitor'.order].status \in {PENDING, OPEN}
           /\ heap'[monitor'.order].id # None
           /\ monitor'.order_id = heap'[monitor'.order].id]_vars

\* C19: the strategy receives at most one terminal event per order: an
\* order that is notified FILLED or CANCELLED was not FILLED or CANCELLED
\* before the step (an order is FILLED or CANCELLED only by a step that
\* notifies that event).
C19_AtMostOneTerminalEvent ==
    [][last'.event_type \in {FILLED, CANCELLED}
        => heap[last'.order].status \notin {FILLED, CANCELLED}]_vars

\* Requests in the queue or taken by a consumer and not yet reconciled.
C20_Outstanding ==
    Len(order_queue)
    + BagCardinality(consumers) - CopiesIn(Ended, consumers)

\* C20: at most one request, NewOrder or CancelOrder, is outstanding: in
\* the queue, or taken by a consumer that has not finished reconciling it.
C20_AtMostOneOutstanding == C20_Outstanding <= 1

\* C21: started with a position of 0 or 1, Position.qty is 0 or 1 in every
\* reachable state.
C21_PositionZeroOrOne == position \in {0, 1}

\* Order o is in the ledger with status PENDING.
C22_IsPending(o) == o \in Range(Ledger) /\ heap[o].status = PENDING

\* C22: under fair scheduling and a broker that answers every call, every
\* order that is PENDING in the ledger eventually is no longer PENDING, as
\* long as the process runs.
C22_PendingEventuallyLeaves ==
    \A o \in 1..MaxOrders : C22_IsPending(o) ~> (~C22_IsPending(o) \/ stopped)
====
